---- MODULE Spec2Model ----
(***************************************************************************)
(* Model of reuse_ollama_for_ramalama.py: the script that publishes the    *)
(* local Ollama models to ramalama as symlinks into the Ollama blob store. *)
(*                                                                         *)
(* Strings are sequences of tokens (a token is a piece of text that no     *)
(* operation of the script cuts), so that str.split, str.replace,          *)
(* str.startswith and the pathlib join are computed, not assumed.          *)
(* The file system is the state: the manifest tree and the blob store are  *)
(* read only, the ramalama directory is read and written.                  *)
(***************************************************************************)
EXTENDS Naturals, Sequences, FiniteSets

VARIABLES
    manifests,  \* the files under OLLAMA_MANIFESTS_DIR, in os.walk order
    blobs,      \* the file names present in OLLAMA_BLOBS_DIR
    target,     \* the tree under RAMALAMA_DIR: path -> entry
    pc,         \* position of the process: idle, reset, scan, loop, exit
    reset,      \* args.reset of the running invocation
    files,      \* the list get_filenames returned
    idx,        \* position of the for loop in files (next to process)
    cur,        \* index of the file the latest loop iteration took (0: none)
    resolved,   \* what get_model_blob returned in the latest iteration
    deleted,    \* paths printed as "Delete symlink ..." by this invocation
    attempted,  \* indices of the files for which create_symlink was called
    created,    \* indices printed as "Model ... symlinked ..."
    error,      \* the exception that ended the invocation, "none" if none
    runs        \* the finished invocations, oldest first

vars == <<manifests, blobs, target, pc, reset, files, idx, cur, resolved,
          deleted, attempted, created, error, runs>>

-----------------------------------------------------------------------------
(* Bounds *)

MaxManifests == 2
MaxSyncLayers == 1
MaxLayers == 3
MaxInitEntries == 2
MaxRuns == 2

-----------------------------------------------------------------------------
(* The fixed layout (module level paths) *)

OLLAMA_MANIFESTS_DIR == <<"/", "manifests">>
OLLAMA_BLOBS_DIR == <<"/", "blobs">>

MODEL_MEDIA_TYPE == "application/vnd.ollama.image.model"
OtherMediaType == "application/vnd.ollama.image.template"

Namespaces == {"library", "user"}
Models == {"m"}
Tags == {"t1", "t2"}

DigestA == <<"sha256", ":", "a">>
DigestB == <<"sha256", ":", "b">>
BlobA == <<"sha256", "-", "a">>
BlobB == <<"sha256", "-", "b">>

\* Paths outside the blob store that exist as regular files: one whose
\* string does not start with the blob store's, one whose string does.
ElsewhereFile == <<"/", "etc">>
SiblingFile == <<"/", "blobs", "2">>

-----------------------------------------------------------------------------
(* Python values *)

None == [none |-> TRUE]
Str(s) == [str |-> s]

\* dict.get(key, default)
Get(obj, key, default) == IF key \in DOMAIN obj THEN obj[key] ELSE default

\* str.startswith
StartsWith(s, p) == Len(s) >= Len(p) /\ SubSeq(s, 1, Len(p)) = p

\* str.split('/')
RECURSIVE Split(_)
Split(s) ==
    IF s = <<>> THEN << <<>> >>
    ELSE LET r == Split(Tail(s)) IN
         IF Head(s) = "/" THEN << <<>> >> \o r
         ELSE << <<Head(s)>> \o Head(r) >> \o Tail(r)

\* str.replace('sha256:', 'sha256-')
RECURSIVE Replace(_)
Replace(s) ==
    IF Len(s) < 2 THEN s
    ELSE IF s[1] = "sha256" /\ s[2] = ":"
         THEN <<"sha256", "-">> \o Replace(SubSeq(s, 3, Len(s)))
         ELSE <<s[1]>> \o Replace(Tail(s))

\* pathlib: base / Path(s)
JoinPath(base, s) ==
    IF s = <<>> THEN base
    ELSE IF Head(s) = "/" THEN s
    ELSE base \o <<"/">> \o s

-----------------------------------------------------------------------------
(* The file system *)

Absent == [kind |-> "absent"]
RegularFile == [kind |-> "file"]
Directory == [kind |-> "dir"]
Link(t) == [kind |-> "link", to |-> t]

\* os.path.isdir of an absolute path outside RAMALAMA_DIR
IsDirPath(p) == p = OLLAMA_BLOBS_DIR

\* os.path.exists of an absolute path outside RAMALAMA_DIR
PathExists(p) ==
    \/ IsDirPath(p)
    \/ \E f \in blobs : p = OLLAMA_BLOBS_DIR \o <<"/">> \o f
    \/ p \in {ElsewhereFile, SiblingFile}

Names == {<<m, ":", t>> : m \in Models, t \in Tags}
ChildNames == {<<"x">>}
TargetPaths == {<<n>> : n \in Names} \cup {<<n, c>> : n \in Names, c \in ChildNames}

\* os.walk(top) reaches the entry at p: every directory above it is a real one
Walked(t, p) == \A k \in 1..(Len(p) - 1) : t[SubSeq(p, 1, k)] = Directory

\* os.walk lists the entry in `files`: anything but a directory or a symlink
\* that resolves to one
ListedAsFile(t, p) ==
    /\ Walked(t, p)
    /\ t[p].kind \in {"file", "link"}
    /\ ~(t[p].kind = "link" /\ IsDirPath(t[p].to))

-----------------------------------------------------------------------------
(* The functions of the script *)

\* os.path.join(root, file) of a manifest
FileName(m) == OLLAMA_MANIFESTS_DIR \o <<"/", m.path[1], "/", m.path[2], "/", m.path[3]>>

get_filenames == [i \in 1..Len(manifests) |-> FileName(manifests[i])]

get_model_name(filename) ==
    LET parts == Split(filename) IN
    parts[Len(parts) - 1] \o <<":">> \o parts[Len(parts)]

\* FirstMatch without the early return: the last matching layer wins
RECURSIVE FirstMatchNoReturn(_, _)
FirstMatchNoReturn(layers, i) ==
    IF i > Len(layers) THEN None
    ELSE LET rest == FirstMatchNoReturn(layers, i + 1) IN
         IF rest # None THEN rest
         ELSE IF "mediaType" \in DOMAIN layers[i] /\ layers[i].mediaType = MODEL_MEDIA_TYPE
              THEN Str(Replace(Get(layers[i], "digest", <<>>)))
              ELSE None

\* the loop over layers, from position i
RECURSIVE FirstMatch(_, _)
FirstMatch(layers, i) ==
    IF i > Len(layers) THEN None
    ELSE IF "mediaType" \in DOMAIN layers[i] /\ layers[i].mediaType = MODEL_MEDIA_TYPE
         THEN Str(Replace(Get(layers[i], "digest", <<>>)))
         ELSE FirstMatch(layers, i + 1)

get_model_blob(content) ==
    IF content.kind = "missing" THEN None
    ELSE IF content.kind = "malformed" THEN None
    ELSE FirstMatch(Get(content.data, "layers", <<>>), 1)

\* the file's content as open() finds it
ContentAt(filename) ==
    manifests[CHOOSE i \in 1..Len(manifests) : FileName(manifests[i]) = filename].content

\* create_symlink without the os.path.exists test: os.symlink links to
\* anything, present or not
create_symlink_unchecked(t, src, name) ==
    IF t[<<name>>] # Absent
    THEN [err |-> "FileExistsError", target |-> t]
    ELSE [err |-> "none", target |-> [t EXCEPT ![<<name>>] = Link(src)]]

\* create_symlink that replaces whatever is at the target path
create_symlink_overwrite(t, src, name) ==
    IF ~PathExists(src)
    THEN [err |-> "FileNotFoundError", target |-> t]
    ELSE [err |-> "none", target |-> [t EXCEPT ![<<name>>] = Link(src)]]

\* os.symlink is reached only when the source exists; it fails on any
\* existing entry at the target path
create_symlink(t, src, name) ==
    IF ~PathExists(src)
    THEN [err |-> "FileNotFoundError", target |-> t]
    ELSE IF t[<<name>>] # Absent
         THEN [err |-> "FileExistsError", target |-> t]
         ELSE [err |-> "none", target |-> [t EXCEPT ![<<name>>] = Link(src)]]

\* the test reset_symlinks applies to an entry os.walk lists in `files`
Doomed(t, p) ==
    /\ ListedAsFile(t, p)
    /\ t[p].kind = "link"
    /\ StartsWith(t[p].to, OLLAMA_BLOBS_DIR)

reset_symlinks(t) == [p \in DOMAIN t |-> IF Doomed(t, p) THEN Absent ELSE t[p]]

-----------------------------------------------------------------------------
(* Initial states: the file system the script is started on *)

DigestSet == {DigestA, DigestB}
LayerSet ==
    {[mediaType |-> mt, digest |-> d] : mt \in {MODEL_MEDIA_TYPE, OtherMediaType}, d \in DigestSet}
    \cup {[mediaType |-> mt] : mt \in {MODEL_MEDIA_TYPE, OtherMediaType}}

LayerLists(n) == UNION {[1..k -> LayerSet] : k \in 0..n}

\* a dangling file (open fails), a file that is not JSON, a JSON object
\* without a layers field, a JSON object with one
ContentSet(n) ==
    {[kind |-> "missing"], [kind |-> "malformed"],
     [kind |-> "json", data |-> [schemaVersion |-> 2]]}
    \cup {[kind |-> "json", data |-> [schemaVersion |-> 2, layers |-> ls]] : ls \in LayerLists(n)}

PathSet == Namespaces \X Models \X Tags

\* os.walk lists the files of one directory together
WalkOrdered(ms) ==
    \A i, j, k \in 1..Len(ms) :
        (i < k /\ k < j /\ SubSeq(ms[i].path, 1, 2) = SubSeq(ms[j].path, 1, 2))
            => SubSeq(ms[k].path, 1, 2) = SubSeq(ms[i].path, 1, 2)

ManifestTrees(maxFiles, maxLayers) ==
    {ms \in UNION {[1..k -> [path : PathSet, content : ContentSet(maxLayers)]] : k \in 0..maxFiles} :
        /\ \A i, j \in 1..Len(ms) : ms[i].path = ms[j].path => i = j
        /\ WalkOrdered(ms)}

LinkTargets ==
    {OLLAMA_BLOBS_DIR \o <<"/">> \o BlobA, OLLAMA_BLOBS_DIR \o <<"/">> \o BlobB,
     OLLAMA_BLOBS_DIR, ElsewhereFile, SiblingFile}

EntrySet == {Absent, RegularFile, Directory} \cup {Link(l) : l \in LinkTargets}

EmptyTarget == [p \in TargetPaths |-> Absent]

TargetTrees(maxEntries) ==
    {t \in [TargetPaths -> EntrySet] :
        /\ Cardinality({p \in TargetPaths : t[p] # Absent}) <= maxEntries
        /\ \A p \in TargetPaths : t[p] # Absent => Walked(t, p)}

BlobStores == {{BlobA}, {BlobA, BlobB}}

InitProcess ==
    /\ pc = "idle"
    /\ reset = FALSE
    /\ files = <<>>
    /\ idx = 1
    /\ cur = 0
    /\ resolved = None
    /\ deleted = {}
    /\ attempted = {}
    /\ created = {}
    /\ error = "none"
    /\ runs = <<>>

Init ==
    /\ manifests \in ManifestTrees(MaxManifests, MaxSyncLayers)
    /\ blobs \in BlobStores
    /\ target \in TargetTrees(MaxInitEntries)
    /\ InitProcess

\* one manifest of any shape, an empty ramalama directory
InitBlob ==
    /\ manifests \in {ms \in ManifestTrees(1, MaxLayers) : Len(ms) = 1}
    /\ blobs \in BlobStores
    /\ target = EmptyTarget
    /\ InitProcess

-----------------------------------------------------------------------------
(* The script, lines 119-132 *)

\* the script is started, with or without --reset
Invoke(r) ==
    /\ pc = "idle"
    /\ Len(runs) < MaxRuns
    /\ pc' = "reset"
    /\ reset' = r
    /\ files' = <<>>
    /\ idx' = 1
    /\ cur' = 0
    /\ resolved' = None
    /\ deleted' = {}
    /\ attempted' = {}
    /\ created' = {}
    /\ error' = "none"
    /\ UNCHANGED <<manifests, blobs, target, runs>>

\* line 123
ResetSymlinks ==
    /\ pc = "reset"
    /\ target' = reset_symlinks(target)
    /\ deleted' = {p \in DOMAIN target : Doomed(target, p)}
    /\ pc' = IF reset THEN "exit" ELSE "scan"
    /\ UNCHANGED <<manifests, blobs, reset, files, idx, cur, resolved,
                   attempted, created, error, runs>>

\* line 125
GetFilenames ==
    /\ pc = "scan"
    /\ files' = get_filenames
    /\ idx' = 1
    /\ pc' = "loop"
    /\ UNCHANGED <<manifests, blobs, target, reset, cur, resolved, deleted,
                   attempted, created, error, runs>>

\* the loop body with an absent blob read as the empty string
LoopBodyNoneAsEmpty(file, blob) ==
    LET r == create_symlink(target,
                            JoinPath(OLLAMA_BLOBS_DIR, IF blob = None THEN <<>> ELSE blob.str),
                            get_model_name(file))
    IN [err |-> r.err, called |-> TRUE, target |-> r.target]

\* the loop body with the missing source caught and the file skipped
LoopBodySkipMissing(file, blob) ==
    IF blob = None
    THEN [err |-> "TypeError", called |-> FALSE, target |-> target]
    ELSE LET r == create_symlink(target, JoinPath(OLLAMA_BLOBS_DIR, blob.str),
                                 get_model_name(file))
         IN [err |-> IF r.err = "FileNotFoundError" THEN "none" ELSE r.err,
             called |-> TRUE, target |-> r.target]

\* one iteration of the loop, lines 126-132
LoopBody(file, blob) ==
    IF blob = None
    THEN \* Path(None)
         [err |-> "TypeError", called |-> FALSE, target |-> target]
    ELSE LET r == create_symlink(target, JoinPath(OLLAMA_BLOBS_DIR, blob.str),
                                 get_model_name(file))
         IN [err |-> r.err, called |-> TRUE, target |-> r.target]

ProcessManifest ==
    /\ pc = "loop"
    /\ idx <= Len(files)
    /\ LET blob == get_model_blob(ContentAt(files[idx]))
           r == LoopBody(files[idx], blob)
       IN /\ cur' = idx
          /\ resolved' = blob
          /\ target' = r.target
          /\ attempted' = IF r.called THEN attempted \cup {idx} ELSE attempted
          /\ created' = IF r.err = "none" THEN created \cup {idx} ELSE created
          /\ error' = r.err
          /\ idx' = IF r.err = "none" THEN idx + 1 ELSE idx
          /\ pc' = IF r.err = "none" THEN "loop" ELSE "exit"
    /\ UNCHANGED <<manifests, blobs, reset, files, deleted, runs>>

\* the process ends: after the reset, after the loop, or on the exception
Exit ==
    /\ \/ pc = "exit"
       \/ pc = "loop" /\ idx > Len(files)
    /\ runs' = Append(runs, [reset |-> reset, final |-> target, deleted |-> deleted,
                             attempted |-> attempted, created |-> created,
                             error |-> error])
    /\ pc' = "idle"
    /\ UNCHANGED <<manifests, blobs, target, reset, files, idx, cur, resolved,
                   deleted, attempted, created, error>>

Next ==
    \/ \E r \in BOOLEAN : Invoke(r)
    \/ ResetSymlinks
    \/ GetFilenames
    \/ ProcessManifest
    \/ Exit

Spec == Init /\ [][Next]_vars

SpecBlob == InitBlob /\ [][Next]_vars

-----------------------------------------------------------------------------
(* Vocabulary of the properties *)

\* the symlinks of a tree: where they are and what they point at
Symlinks(t) == {<<p, t[p].to>> : p \in {q \in DOMAIN t : t[q].kind = "link"}}

\* a link target whose string starts with the blob store's path
MatchesStorePrefix(e) == e.kind = "link" /\ StartsWith(e.to, OLLAMA_BLOBS_DIR)

\* a link target that is the blob store or a path inside it
UnderBlobStore(e) ==
    /\ e.kind = "link"
    /\ \/ e.to = OLLAMA_BLOBS_DIR
       \/ StartsWith(e.to, OLLAMA_BLOBS_DIR \o <<"/">>)

IsModelLayer(l) == "mediaType" \in DOMAIN l /\ l.mediaType = MODEL_MEDIA_TYPE

LayersOf(content) ==
    IF "layers" \in DOMAIN content.data THEN content.data.layers ELSE <<>>

\* a parseable manifest without a layer of the model media type
NoModelLayer(content) ==
    /\ content.kind = "json"
    /\ \A i \in 1..Len(LayersOf(content)) : ~IsModelLayer(LayersOf(content)[i])

\* a manifest whose blob resolution fails recoverably
FailsRecoverably(content) ==
    content.kind \in {"missing", "malformed"} \/ NoModelLayer(content)

\* the loop is about to process a file
InLoop == pc = "loop" /\ idx <= Len(files)

\* the name and the source the loop computes for the i-th file
NameOf(i) == <<manifests[i].path[2], ":", manifests[i].path[3]>>

OSErrors == {"FileNotFoundError", "FileExistsError"}

-----------------------------------------------------------------------------
(* C1: running sync twice in a row leaves the same symlinks (names and     *)
(* link targets) in the target directory as running it once.               *)
SyncTwiceSameAsOnce ==
    \A k \in 1..(Len(runs) - 1) :
        (~runs[k].reset /\ ~runs[k + 1].reset)
            => Symlinks(runs[k + 1].final) = Symlinks(runs[k].final)

(* C2: reset deletes exactly the symlinks whose link target is a path      *)
(* under the blob store; every other entry is left in place unchanged.     *)
ResetDeletesExactlyStoreLinks ==
    [][pc = "reset" =>
        \A p \in TargetPaths :
            target'[p] = IF UnderBlobStore(target[p]) THEN Absent ELSE target[p]]_vars

(* C3: in a sync run a manifest whose blob resolution fails recoverably is *)
(* skipped and the run goes on: unless a symlink creation failed, every    *)
(* manifest that resolves gets its symlink attempted.                      *)
RecoverableFailureSkipped ==
    \A k \in 1..Len(runs) :
        (~runs[k].reset /\ runs[k].error \notin OSErrors)
            => \A j \in 1..Len(manifests) :
                   ~FailsRecoverably(manifests[j].content) => j \in runs[k].attempted

(* C4, as stated: for a manifest without a model layer, resolution returns *)
(* the absent value and the sync run creates no symlink of that            *)
(* manifest's name.                                                        *)
NoLayerNoSymlinkNamed ==
    \A k \in 1..Len(runs) : \A i \in 1..Len(manifests) :
        (~runs[k].reset /\ NoModelLayer(manifests[i].content))
            => /\ get_model_blob(manifests[i].content) = None
               /\ \A j \in runs[k].created : NameOf(j) # NameOf(i)

(* C4, amended: for a manifest without a model layer, resolution returns   *)
(* the absent value, and the loop iteration for that manifest does not     *)
(* call create_symlink and leaves the target directory unchanged.          *)
NoLayerNoSymlinkAttempted ==
    [][(InLoop /\ NoModelLayer(ContentAt(files[idx])))
        => /\ cur' = idx
           /\ resolved' = None
           /\ target' = target
           /\ idx \notin attempted'
           /\ idx \notin created']_vars

NoLayerWitness ==
    /\ pc = "exit"
    /\ cur >= 1
    /\ NoModelLayer(manifests[cur].content)
    /\ Len(LayersOf(manifests[cur].content)) >= 1
    /\ resolved = None
    /\ cur \notin attempted

(* C5: create_symlink with a source that does not exist fails with         *)
(* FileNotFoundError and leaves the target directory unchanged.            *)
MissingSourceFails ==
    [][(InLoop /\ get_model_blob(ContentAt(files[idx])) # None
              /\ ~PathExists(JoinPath(OLLAMA_BLOBS_DIR,
                                       get_model_blob(ContentAt(files[idx])).str)))
        => /\ idx \in attempted'
           /\ error' = "FileNotFoundError"
           /\ target' = target]_vars

MissingSourceWitness ==
    /\ pc = "exit"
    /\ cur \in attempted
    /\ error = "FileNotFoundError"
    /\ resolved = Str(BlobB)
    /\ target[<<NameOf(cur)>>] = Absent

NeverOverwrites ==
    [][(InLoop /\ get_model_blob(ContentAt(files[idx])) # None
              /\ target[<<get_model_name(files[idx])>>] # Absent)
        => /\ idx \in attempted'
           /\ error' \in OSErrors
           /\ (PathExists(JoinPath(OLLAMA_BLOBS_DIR,
                                   get_model_blob(ContentAt(files[idx])).str))
                  => error' = "FileExistsError")
           /\ target' = target
           /\ pc' = "exit"
           /\ idx' = idx
           /\ created' = created]_vars

NeverOverwritesWitness ==
    /\ pc = "exit"
    /\ cur \in attempted
    /\ error = "FileExistsError"
    /\ target[<<NameOf(cur)>>] = Link(ElsewhereFile)
    /\ cur < Len(files)

(* C9: when a manifest resolves to a blob file that is not in the store,   *)
(* the FileNotFoundError ends the run: no symlink for that manifest or a   *)
(* later one, and the symlinks created for earlier ones remain.            *)
MissingBlobEndsRun ==
    (cur >= 1 /\ resolved # None
             /\ ~PathExists(JoinPath(OLLAMA_BLOBS_DIR, resolved.str)))
        => /\ pc \in {"exit", "idle"}
           /\ error = "FileNotFoundError"
           /\ idx = cur
           /\ created = 1..(cur - 1)
           /\ attempted = 1..cur
           /\ \A i \in created :
                 target[<<NameOf(i)>>]
                    = Link(JoinPath(OLLAMA_BLOBS_DIR, get_model_blob(manifests[i].content).str))
           /\ \A n \in Names :
                 (target[<<n>>].kind = "link"
                    /\ StartsWith(target[<<n>>].to, OLLAMA_BLOBS_DIR \o <<"/">>))
                    => \E i \in created : NameOf(i) = n

MissingBlobWitness ==
    /\ pc = "exit"
    /\ error = "FileNotFoundError"
    /\ cur = 2
    /\ created = {1}
    /\ target[<<NameOf(1)>>] = Link(OLLAMA_BLOBS_DIR \o <<"/">> \o BlobA)
    /\ target[<<NameOf(2)>>] = Absent

(* C6: reset twice in a row: the second run deletes nothing, and after the *)
(* first no symlink whose link target matches the blob store prefix is     *)
(* left anywhere in the target directory.                                  *)
ResetIdempotent ==
    \A k \in 1..(Len(runs) - 1) :
        (runs[k].reset /\ runs[k + 1].reset)
            => /\ runs[k + 1].deleted = {}
               /\ \A p \in TargetPaths : ~MatchesStorePrefix(runs[k].final[p])

(* C10: every symlink a sync run creates is deleted by a following reset   *)
(* run: after sync then reset none of them is left in the target           *)
(* directory.                                                              *)
SyncLinksRemovedByReset ==
    \A k \in 1..(Len(runs) - 1) :
        (~runs[k].reset /\ runs[k + 1].reset)
            => \A i \in runs[k].created :
                   ~MatchesStorePrefix(runs[k + 1].final[<<NameOf(i)>>])
====
